---- MODULE Spec2Model ----
(***************************************************************************)
(* A model of the actor runtime of kitfucoda-intro2 (src/framework):       *)
(* the mailbox actor (actor.py), the fold and loop helpers (common.py),    *)
(* the event registry and element operations (game.py), the dispatcher    *)
(* and its poll loop (event.py), the render-tick loop (display.py), the    *)
(* orchestrator (core.py), and the listeners of the animation2 example    *)
(* (src/kitfucoda_intro2/animation2.py).                                  *)
(*                                                                         *)
(* Python values.  A value that may be None is a record [none, v];         *)
(* a frozendict is the sequence of its entries [key, value] in insertion   *)
(* order (frozendict keeps insertion order, and dispatch iterates it);     *)
(* a tuple is a sequence; a pygame.Rect is <<x, y, w, h>>, and an absent   *)
(* Rect (position = None) is <<>>.                                         *)
(***************************************************************************)
EXTENDS Integers, Sequences, FiniteSets, TLC

VARIABLES
    mailbox,     \* asyncio.Queue of requests (core.py:75), oldest first
    state,       \* coroutine_reduce's `result`: the State the fold holds
    consumer,    \* the consume loop: [pc, request]
    requests,    \* every request ever enqueued, in enqueue order (history)
    tasks,       \* tasks[i]: the detached task of request i (ExecuteRequest)
    futures,     \* futures[i]: the reply_to Future of request i
    applied,     \* ids of the SetRequests folded into state, in order (history)
    exit_event,  \* the shared asyncio.Event (core.py:74)
    actor,       \* actor.run's position: "waiting" | "returned"
    event,       \* the occurrence last handed to a dispatch function
    invoked,     \* listener tasks created for that occurrence, in order
                 \* (SpecFade: every listener task created, with its position)
    custom_type, \* pygame's counter behind pygame.event.custom_type()
    pygame_queue,\* pygame's event queue, oldest first
    poll,        \* the poll loop (event.process) and what its last cycle did,
                 \* and the request the render-tick loop awaits
    proc         \* the asyncio tasks of main_loop: name -> [pc, cancel]

\* the variables of pygame, of the poll loop and of the orchestrator
sysvars == <<custom_type, pygame_queue, poll, proc>>

vars == <<mailbox, state, consumer, requests, tasks, futures, applied,
          exit_event, actor, event, invoked, sysvars>>

---------------------------------------------------------------------------
(* Bounds of the model. *)

MaxRequests == 3      \* requests enqueued in one behaviour
MaxListeners == 2     \* listeners in one tuple of the registry (dispatch spec)

---------------------------------------------------------------------------
(* Python values *)

None == [none |-> TRUE, v |-> <<>>]

Some(x) == [none |-> FALSE, v |-> x]

(* frozendict *)

DictKeys(d) == {d[i].key : i \in 1..Len(d)}

DictGet(d, k, default) ==
    IF k \in DictKeys(d)
    THEN d[CHOOSE i \in 1..Len(d) : d[i].key = k].value
    ELSE default

DictSet(d, k, x) ==
    IF k \in DictKeys(d)
    THEN [i \in 1..Len(d) |-> IF d[i].key = k THEN [key |-> k, value |-> x] ELSE d[i]]
    ELSE Append(d, [key |-> k, value |-> x])

DictDeleteKey(k, e) == e.key # k

DictDelete(d, k) == SelectSeq(d, LAMBDA e : DictDeleteKey(k, e))

---------------------------------------------------------------------------
(* pygame constants and the small universe the inputs are drawn from *)

MOUSEBUTTONDOWN == 1025
USEREVENT == 32866
FRAME_NEXT == USEREVENT + 4

EventTypes == {MOUSEBUTTONDOWN, FRAME_NEXT}

ElementIds == {"e1", "e2"}

Rects == {<<0, 0, 1, 1>>, <<1, 0, 2, 1>>}

Points == {<<0, 0>>, <<1, 0>>, <<2, 0>>}

ListenerOps == {"L1", "L2"}

Element(id, position) == [id |-> id, position |-> position]

Elements == {Element(id, r) : id \in ElementIds, r \in Rects}

Listener(event_type, op) == [event_type |-> event_type, op |-> op]

(* The outcome of calling a Python callable *)

Return(x) == [raised |-> FALSE, value |-> x]

Raise == [raised |-> TRUE, value |-> None]

---------------------------------------------------------------------------
(* game.py: the operations on `elements` and `listeners` *)

element_remove(elements, element) ==
    IF element.id \in DictKeys(elements)
    THEN DictDelete(elements, element.id)
    ELSE elements

element_update(elements, element) == DictSet(elements, element.id, element)

\* a faulty _delete_listeners, for sensitivity checks: it drops every target
\* of the event type
delete_listeners_all(current, incoming, element) ==
    DictSet(current, incoming.key, <<>>)

\* _delete_listeners: one step of the reduce of listeners_remove
delete_listeners(current, incoming, element) ==
    IF element.id \in DictKeys(incoming.value)
    THEN DictSet(current, incoming.key, DictDelete(incoming.value, element.id))
    ELSE current

RECURSIVE listeners_remove_reduce(_, _, _, _)
listeners_remove_reduce(current, items, i, element) ==
    IF i > Len(items)
    THEN current
    ELSE listeners_remove_reduce(delete_listeners(current, items[i], element),
                                 items, i + 1, element)

listeners_remove(listeners, element) ==
    listeners_remove_reduce(listeners, listeners, 1, element)

\* a faulty listener_add, for sensitivity checks: the new listener goes to
\* the front of the tuple
listener_add_front(listeners, target, event_type, listener) ==
    DictSet(listeners, event_type,
            DictSet(DictGet(listeners, event_type, <<>>),
                    IF target.none THEN "*" ELSE target.v.id,
                    <<Listener(event_type, listener)>>
                    \o DictGet(DictGet(listeners, event_type, <<>>),
                               IF target.none THEN "*" ELSE target.v.id, <<>>)))

\* target is None (the wildcard) or Some(element)
listener_key(target) == IF target.none THEN "*" ELSE target.v.id

listener_add(listeners, target, event_type, listener) ==
    DictSet(listeners, event_type,
            DictSet(DictGet(listeners, event_type, <<>>), listener_key(target),
                    Append(DictGet(DictGet(listeners, event_type, <<>>),
                                   listener_key(target), <<>>),
                           Listener(event_type, listener))))

\* the for loop of listener_add_list from pair i on; application is the
\* local of that name, None while nothing was assigned to it.  Every
\* iteration calls listener_add with the parameter `listeners`.
RECURSIVE listener_add_list_loop(_, _, _, _, _)
listener_add_list_loop(listeners, target, listeners_new, i, application) ==
    IF i > Len(listeners_new) THEN application
    ELSE listener_add_list_loop(
             listeners, target, listeners_new, i + 1,
             Some(listener_add(listeners, target,
                               listeners_new[i][1], listeners_new[i][2])))

\* listeners_new is the tuple of (event_type, listener) pairs; `return
\* application` with the local unassigned raises UnboundLocalError
listener_add_list(listeners, target, listeners_new) ==
    LET application == listener_add_list_loop(listeners, target,
                                              listeners_new, 1, None)
    IN  IF application.none THEN Raise ELSE Return(application.v)

---------------------------------------------------------------------------
(* The State: game.py's Application, reduced to the fields the runtime     *)
(* reads and replaces.  exit_event holds a reference to the shared Event.  *)

Fields == {"events", "elements", "listeners", "exit_event"}

\* a request's `field` when it is None
NoField == "None"

InitialState ==
    [events |-> Some(<<>>), elements |-> Some(<<>>), listeners |-> Some(<<>>),
     exit_event |-> Some(<<"exit_event">>)]

---------------------------------------------------------------------------
(* actor.py *)

Operation(op, args) == [op |-> op, args |-> args]

SetRequest(operation, field) ==
    [kind |-> "SetRequest", operation |-> operation, field |-> field,
     reply_to |-> FALSE]

\* reply_to: whether the request carries a Future (futures[id of the request])
ExecuteRequest(operation, field, reply_to) ==
    [kind |-> "ExecuteRequest", operation |-> operation, field |-> field,
     reply_to |-> reply_to]

\* a faulty setter, for sensitivity checks: it rebuilds the State from the
\* initial one and so loses every field but `key`
_state_setter_fresh(s, key, value) ==
    IF key \in Fields THEN Return([InitialState EXCEPT ![key] = value]) ELSE Raise

_state_getter(s, key) == s[key]

\* replace(state, **{key: value}): a key that is no field name is a TypeError
_state_setter(s, key, value) ==
    IF key \in Fields THEN Return([s EXCEPT ![key] = value]) ELSE Raise

\* operation.op(arg, *args): the callables of game.py, and the callables an
\* application may hand in: one that raises, one that returns None, one that
\* returns what it was given, one that returns the initial Application
OpCall(operation, arg) ==
    CASE operation.op = "op_raise" -> Raise
      [] operation.op = "op_none" -> Return(None)
      [] operation.op = "observe" -> Return(arg)
      [] operation.op = "application_new" -> Return(Some(InitialState))
      [] operation.op = "event_quit" -> Return(None)
      [] arg.none -> Raise
      [] operation.op = "element_update" ->
            Return(Some(element_update(arg.v, operation.args[1])))
      [] operation.op = "element_remove" ->
            Return(Some(element_remove(arg.v, operation.args[1])))
      [] operation.op = "listeners_remove" ->
            Return(Some(listeners_remove(arg.v, operation.args[1])))
      [] operation.op = "listener_add" ->
            Return(Some(listener_add(arg.v, operation.args[1],
                                     operation.args[2], operation.args[3])))

\* the argument both request kinds hand to the operation
RequestArgument(s, field) ==
    IF field # NoField THEN _state_getter(s, field) ELSE Some(s)

\* SetRequest.__call__
SetRequestCall(request, s) ==
    LET out == OpCall(request.operation, RequestArgument(s, request.field))
    IN  IF out.raised THEN Raise ELSE _state_setter(s, request.field, out.value)

\* `assert result`: Application is a dataclass without __bool__ or __len__,
\* so every instance is true
Truthy(result) == TRUE

\* a faulty queue, for sensitivity checks: get returns the newest item
QueueGetNewest(q) == Len(q)

\* asyncio.Queue.get: the position of the item it returns (the oldest)
QueueGet(q) == 1

QueueRemove(q, i) == [j \in 1..(Len(q) - 1) |-> IF j < i THEN q[j] ELSE q[j + 1]]

\* a faulty reply, for sensitivity checks: set_result(result) without the
\* await hands over the task, not the operation's return value
FutureSetResultTask(f, x) ==
    [status |-> "done", result |-> None, nset |-> f.nset + 1]

\* Future.set_result; nset counts the calls
FutureSetResult(f, x) ==
    [status |-> "done",
     result |-> IF f.status = "pending" THEN x ELSE f.result,
     nset |-> f.nset + 1]

NoFuture == [status |-> "none", result |-> None, nset |-> 0]

\* asyncio.Future()
NewFuture == [status |-> "pending", result |-> None, nset |-> 0]

NoTask == [pc |-> "none", state |-> InitialState, arg |-> None, result |-> None]

\* a faulty consume, for sensitivity checks: after an ExecuteRequest the fold
\* goes on with the initial State
ConsumeExecuteResultReset(s, request) == InitialState

\* what consume hands on as the fold's next value after an ExecuteRequest
ConsumeExecuteResult(s, request) == s

\* a faulty ExecuteRequest, for sensitivity checks: the argument is read from
\* the State current when the detached task runs
ExecuteRequestStateLive(i) == state

\* the State the detached task of an ExecuteRequest reads its argument from:
\* the `state` parameter consume passed when it created the task
ExecuteRequestState(i) == tasks[i].state

---------------------------------------------------------------------------
(* The callables and arguments producers hand to set_, execute and         *)
(* execute_sync.                                                           *)

E1 == Element("e1", <<0, 0, 1, 1>>)

SetInputs ==
    { <<"elements", Operation("element_update", <<E1>>)>>,
      <<"elements", Operation("element_remove", <<E1>>)>>,
      <<"listeners", Operation("listener_add", <<None, MOUSEBUTTONDOWN, "L1">>)>>,
      <<"elements", Operation("op_raise", <<>>)>>,
      <<"elements", Operation("op_none", <<>>)>>,
      <<NoField, Operation("application_new", <<>>)>> }

ExecuteInputs ==
    { <<"elements", Operation("observe", <<>>)>>,
      <<"exit_event", Operation("event_quit", <<>>)>> }

ExecuteSyncInputs ==
    { <<NoField, Operation("observe", <<>>)>>,
      <<"elements", Operation("observe", <<>>)>>,
      <<"elements", Operation("op_raise", <<>>)>> }

---------------------------------------------------------------------------
(* The tasks of the orchestrator (core.py), and the poll loop (event.py)   *)

\* the tasks main_loop is and starts, by the coroutine each one runs
TaskNames ==
    {"main_loop", "game_run", "display_run", "event_run", "actor_run",
     "consume", "process", "update"}

\* the tasks, and the callback add_signal_handler installs
ProcNames == TaskNames \cup {"shutdown_handler"}

\* a task: pc is "absent" before create_task, then "ready", "waiting" at an
\* await ("aborting" for main_loop in a task group that is cancelling its
\* children), and "done", "cancelled" or "failed" at its end; cancel:
\* Task.cancel was called on it
NoProc == [pc |-> "absent", cancel |-> FALSE]

\* the poll loop before event.run has created it; sync is the id of the
\* refresh request of the running cycle, dispatched the ids of the requests
\* enqueued for the occurrences it drained; frame is the id of the request
\* the render-tick loop (display.py) awaits the reply of
NoPoll == [pc |-> "unstarted", cycle |-> 0, sync |-> 0, dispatched |-> <<>>,
           frame |-> 0]

---------------------------------------------------------------------------
(* The mailbox actor as a state machine *)

Init ==
    /\ mailbox = <<>>
    /\ state = InitialState
    /\ consumer = [pc |-> "waiting", request |-> 0]
    /\ requests = <<>>
    /\ tasks = <<>>
    /\ futures = <<>>
    /\ applied = <<>>
    /\ exit_event = FALSE
    /\ actor = "waiting"
    /\ event = [type |-> MOUSEBUTTONDOWN, pos |-> <<0, 0>>, target |-> None]
    /\ invoked = <<>>
    /\ custom_type = USEREVENT + 1
    /\ pygame_queue = <<>>
    /\ poll = NoPoll
    /\ proc = [n \in ProcNames |-> NoProc]

\* mailbox.put_nowait(request); a request is known by its place in `requests`
Put(request, future) ==
    /\ Len(requests) < MaxRequests
    /\ requests' = Append(requests, request)
    /\ mailbox' = Append(mailbox, Len(requests) + 1)
    /\ tasks' = Append(tasks, NoTask)
    /\ futures' = Append(futures, future)
    /\ UNCHANGED <<state, consumer, applied, exit_event, actor, event, invoked,
                   sysvars>>

\* set_(mailbox, field)(op, *args)
Set_ ==
    \E in \in SetInputs : Put(SetRequest(in[2], in[1]), NoFuture)

\* execute(mailbox, field)(op, *args)
Execute ==
    \E in \in ExecuteInputs : Put(ExecuteRequest(in[2], in[1], FALSE), NoFuture)

\* execute_sync(mailbox, field)(op, *args)
ExecuteSync ==
    \E in \in ExecuteSyncInputs : Put(ExecuteRequest(in[2], in[1], TRUE), NewFuture)

\* consume: queue.get() returns a SetRequest; request(state) is awaited
ConsumeSet ==
    /\ consumer.pc = "waiting"
    /\ mailbox # <<>>
    /\ LET i == mailbox[QueueGet(mailbox)]
       IN  /\ requests[i].kind = "SetRequest"
           /\ consumer' = [pc |-> "mutating", request |-> i]
           /\ mailbox' = QueueRemove(mailbox, QueueGet(mailbox))
    /\ UNCHANGED <<state, requests, tasks, futures, applied, exit_event, actor,
                   event, invoked,
                   sysvars>>

\* consume: the awaited SetRequest.__call__ ends; `assert result`; the fold
\* (coroutine_reduce) takes the result, or ends with the exception
ConsumeSetDone ==
    /\ consumer.pc = "mutating"
    /\ LET out == SetRequestCall(requests[consumer.request], state)
       IN  IF out.raised \/ ~Truthy(out.value)
           THEN /\ consumer' = [pc |-> "failed", request |-> consumer.request]
                /\ UNCHANGED <<state, applied>>
           ELSE /\ consumer' = [pc |-> "waiting", request |-> 0]
                /\ state' = out.value
                /\ applied' = Append(applied, consumer.request)
    /\ UNCHANGED <<mailbox, requests, tasks, futures, exit_event, actor, event,
                   invoked,
                   sysvars>>

\* consume: queue.get() returns an ExecuteRequest; request(state) becomes a
\* detached task and the fold goes on with the same state
ConsumeExecute ==
    /\ consumer.pc = "waiting"
    /\ mailbox # <<>>
    /\ LET i == mailbox[QueueGet(mailbox)]
       IN  /\ requests[i].kind = "ExecuteRequest"
           /\ tasks' = [tasks EXCEPT ![i] = [NoTask EXCEPT !.pc = "created",
                                                           !.state = state]]
           /\ state' = ConsumeExecuteResult(state, requests[i])
           /\ mailbox' = QueueRemove(mailbox, QueueGet(mailbox))
    /\ UNCHANGED <<consumer, requests, futures, applied, exit_event, actor,
                   event, invoked,
                   sysvars>>

\* ExecuteRequest.__call__, up to create_task: the operation's argument is
\* read from the state the request was called with
ExecuteRequestCall(i) ==
    /\ tasks[i].pc = "created"
    /\ tasks' = [tasks EXCEPT ![i].pc = "running",
                              ![i].arg = RequestArgument(ExecuteRequestState(i),
                                                         requests[i].field)]
    /\ UNCHANGED <<mailbox, state, consumer, requests, futures, applied,
                   exit_event, actor, event, invoked,
                   sysvars>>

\* the task of operation.op(...) runs: it returns, or ends with the exception
\* it raised (and `await result` in ExecuteRequest.__call__ raises it again)
OperationRun(i) ==
    /\ tasks[i].pc = "running"
    /\ LET out == OpCall(requests[i].operation, tasks[i].arg)
       IN  /\ tasks' = [tasks EXCEPT
                  ![i].pc = IF out.raised THEN "failed"
                            ELSE IF requests[i].reply_to THEN "returned" ELSE "done",
                  ![i].result = out.value]
           /\ exit_event' = (exit_event \/ requests[i].operation.op = "event_quit")
    /\ UNCHANGED <<mailbox, state, consumer, requests, futures, applied, actor,
                   event, invoked,
                   sysvars>>

\* ExecuteRequest.__call__: self.reply_to.set_result(await result)
ExecuteRequestReply(i) ==
    /\ tasks[i].pc = "returned"
    /\ futures' = [futures EXCEPT ![i] = FutureSetResult(futures[i], tasks[i].result)]
    /\ tasks' = [tasks EXCEPT ![i].pc = "done"]
    /\ UNCHANGED <<mailbox, state, consumer, requests, applied, exit_event, actor,
                   event, invoked,
                   sysvars>>

\* actor.run: `await exit_event.wait()` ends
ActorRunReturn ==
    /\ actor = "waiting"
    /\ exit_event
    /\ actor' = "returned"
    /\ UNCHANGED <<mailbox, state, consumer, requests, tasks, futures, applied,
                   exit_event, event, invoked,
                   sysvars>>

Next ==
    \/ Set_
    \/ Execute
    \/ ExecuteSync
    \/ ConsumeSet
    \/ ConsumeSetDone
    \/ ConsumeExecute
    \/ \E i \in 1..Len(tasks) : ExecuteRequestCall(i)
    \/ \E i \in 1..Len(tasks) : OperationRun(i)
    \/ \E i \in 1..Len(tasks) : ExecuteRequestReply(i)
    \/ ActorRunReturn

Spec == Init /\ [][Next]_vars

---------------------------------------------------------------------------
(* Properties of the mailbox actor *)

IsSetRequest(i) == requests[i].kind = "SetRequest"

\* the ids of the SetRequests among the first k requests, in enqueue order
SetIds(k) == SelectSeq([i \in 1..k |-> i], IsSetRequest)

IsPrefix(a, b) == Len(a) <= Len(b) /\ \A i \in 1..Len(a) : a[i] = b[i]

\* one mutate operation applied on its own to State s
SequentialApply(s, r) ==
    IF r.field = NoField
    THEN OpCall(r.operation, Some(s)).value.v
    ELSE [s EXCEPT ![r.field] = OpCall(r.operation, s[r.field]).value]

\* the sequential left fold of the first n of the requests `ids` over s
RECURSIVE FoldSets(_, _, _)
FoldSets(s, ids, n) ==
    IF n = 0 THEN s
    ELSE SequentialApply(FoldSets(s, ids, n - 1), requests[ids[n]])

\* C1: the mutate operations are applied one at a time in mailbox FIFO
\* order, whatever ExecuteRequests are interleaved: the applied SetRequests
\* are a prefix of the enqueued ones, the one in progress is the next of
\* them, the State is the sequential left fold of the applied ones over the
\* initial State, and once the mailbox is drained all of them are applied.
C1_Serialized ==
    /\ IsPrefix(applied, SetIds(Len(requests)))
    /\ state = FoldSets(InitialState, applied, Len(applied))
    /\ consumer.pc = "mutating" =>
           consumer.request = SetIds(Len(requests))[Len(applied) + 1]
    /\ (mailbox = <<>> /\ consumer.pc = "waiting") =>
           applied = SetIds(Len(requests))

\* two mutate operations that do not commute, an ExecuteRequest enqueued
\* between them, all processed
C1_Witness ==
    /\ mailbox = <<>>
    /\ consumer.pc = "waiting"
    /\ Len(applied) = 2
    /\ applied[2] = applied[1] + 2
    /\ tasks[applied[1] + 1].pc # "none"
    /\ state # FoldSets(InitialState, <<applied[2], applied[1]>>, 2)

TaskHasArgument(i) == tasks[i].pc \in {"running", "returned", "done", "failed"}

IsElementUpdate(j) ==
    IsSetRequest(j) /\ requests[j].operation.op = "element_update"

\* C2: the operation of an ExecuteRequest receives the State (or the named
\* field) as the fold of exactly the SetRequests enqueued before it; one
\* that reads `elements` sees element e1 if the last mutate of `elements`
\* before it added e1, and does not if no mutate before it added e1.
C2_DequeueSnapshot ==
    \A i \in 1..Len(tasks) :
        TaskHasArgument(i) =>
            /\ tasks[i].arg =
                   RequestArgument(
                       FoldSets(InitialState, SetIds(i - 1), Len(SetIds(i - 1))),
                       requests[i].field)
            /\ requests[i].field = "elements" /\ ~tasks[i].arg.none =>
                /\ (\A j \in 1..(i - 1) : ~IsElementUpdate(j)) =>
                       "e1" \notin DictKeys(tasks[i].arg.v)
                /\ (\E j \in 1..(i - 1) :
                        /\ IsElementUpdate(j)
                        /\ \A k \in (j + 1)..(i - 1) : ~IsSetRequest(k)) =>
                       "e1" \in DictKeys(tasks[i].arg.v)

\* the detached task ran after a later mutate had already changed `elements`
C2_Witness ==
    \E i \in 1..Len(tasks) :
        /\ tasks[i].pc = "running"
        /\ requests[i].field = "elements"
        /\ \E j \in (i + 1)..Len(requests) :
               /\ IsElementUpdate(j)
               /\ Len(applied) > 0
               /\ applied[Len(applied)] = j
        /\ "e1" \in DictKeys(state.elements.v)
        /\ "e1" \notin DictKeys(tasks[i].arg.v)

\* C3: the State the fold holds changes only in the step that ends the
\* processing of a SetRequest; enqueueing, processing an ExecuteRequest and
\* every step of a detached task leave it as it is.
C3_SingleWriter ==
    [][state' # state =>
          /\ consumer.pc = "mutating"
          /\ IsSetRequest(consumer.request)
          /\ consumer'.pc = "waiting"]_vars

\* an ExecuteRequest was processed, and its operation ran to the end, after
\* a mutate had changed the State
C3_Witness ==
    \E i \in 1..Len(tasks) :
        /\ tasks[i].pc = "done"
        /\ tasks[i].state # InitialState
        /\ state = tasks[i].state

\* the step of consume that ends a SetRequest successfully
SetApplied == consumer.pc = "mutating" /\ consumer'.pc = "waiting"

\* C4: processing a SetRequest with target field f on State s gives a State
\* whose f is the operation's result on s.f and whose other fields are those
\* of s.
C4_FieldReplaced ==
    [][SetApplied /\ requests[consumer.request].field # NoField =>
          LET r == requests[consumer.request]
          IN  /\ state'[r.field] = OpCall(r.operation, state[r.field]).value
              /\ \A g \in Fields \ {r.field} : state'[g] = state[g]]_vars

\* mutates of two different fields were applied, the later one keeping the
\* field the earlier one had replaced
C4_Witness ==
    /\ Len(applied) >= 2
    /\ requests[applied[Len(applied)]].field = "listeners"
    /\ state.listeners # InitialState.listeners
    /\ state.elements # InitialState.elements

\* C5: a SetRequest without target field whose operation returns is applied:
\* the whole State becomes the operation's result and the fold goes on.
C5_WholeStateReplaced ==
    [][(/\ consumer.pc = "mutating"
        /\ requests[consumer.request].field = NoField
        /\ ~OpCall(requests[consumer.request].operation, Some(state)).raised
        /\ consumer'.pc # "mutating") =>
          /\ consumer'.pc = "waiting"
          /\ state' = OpCall(requests[consumer.request].operation, Some(state)).value.v]_vars

\* C6: no State with a None field is ever produced by the fold, or handed to
\* the task of a later request.
C6_NoNullState ==
    /\ \A f \in Fields : ~state[f].none
    /\ \A i \in 1..Len(tasks) : \A f \in Fields : ~tasks[i].state[f].none

EventQuitInFlight ==
    \E i \in 1..Len(tasks) :
        /\ requests[i].operation.op = "event_quit"
        /\ tasks[i].pc \in {"created", "running"}

\* C7: when the callable of a SetRequest has raised and ended the consume
\* loop, the stop signal is raised, or about to be by a task in flight: the
\* system is not left Running with a dead consume loop.
C7_FailurePropagated ==
    (/\ consumer.pc = "failed"
     /\ requests[consumer.request].operation.op = "op_raise") =>
        (exit_event \/ EventQuitInFlight)

InMailbox(i) == \E k \in 1..Len(mailbox) : mailbox[k] = i

\* C8: the Future of execute_sync is resolved at most once, only after its
\* request was dequeued and its operation returned, with the operation's
\* return value; it is resolved once the request's task has ended normally,
\* and a resolved Future never changes.
C8_ReplyOnceState ==
    \A i \in 1..Len(futures) :
        /\ futures[i].nset <= 1
        /\ futures[i].status = "done" =>
              /\ requests[i].kind = "ExecuteRequest" /\ requests[i].reply_to
              /\ ~InMailbox(i)
              /\ tasks[i].pc = "done"
              /\ futures[i].nset = 1
              /\ futures[i].result =
                     OpCall(requests[i].operation, tasks[i].arg).value
        /\ (requests[i].reply_to /\ tasks[i].pc = "done") =>
              futures[i].status = "done"
        /\ ~requests[i].reply_to => futures[i].status = "none"

C8_ReplyOnce ==
    [][/\ C8_ReplyOnceState'
       /\ \A i \in 1..Len(futures) :
              futures[i].status = "done" => futures'[i] = futures[i]]_vars

\* a Future resolved with the State its request saw, while a later mutate
\* has changed the State since
C8_Witness ==
    \E i \in 1..Len(futures) :
        /\ futures[i].status = "done"
        /\ requests[i].field = NoField
        /\ futures[i].result = Some(tasks[i].state)
        /\ state # tasks[i].state

\* C9: when the operation of an ExecuteRequest with a reply Future has
\* raised, the Future is fulfilled (with the failure), not left pending.
C9_FailureFulfilsReply ==
    \A i \in 1..Len(tasks) :
        (tasks[i].pc = "failed" /\ requests[i].reply_to) =>
            futures[i].status # "pending"

---------------------------------------------------------------------------
(* event.py: the dispatcher.  A listener task created by dispatch is an    *)
(* Invocation: the listener's callable and the target it is called with,   *)
(* the Application snapshot or an element of it.                           *)

NoElement == Element("*", <<>>)

Invocation(listener, kind, element) ==
    [op |-> listener.op, event_type |-> listener.event_type,
     kind |-> kind, element |-> element]

\* one create_task(listener.op(event, target, mailbox, logger)) per listener
InvokeAll(listeners, kind, element) ==
    [i \in 1..Len(listeners) |-> Invocation(listeners[i], kind, element)]

\* pygame.Rect.collidepoint
collidepoint(rect, x, y) ==
    /\ rect[1] <= x /\ x < rect[1] + rect[3]
    /\ rect[2] <= y /\ y < rect[2] + rect[4]

\* check_is_collide: raised when the element has no Rect
check_is_collide(element, ev) ==
    IF element.position = <<>>
    THEN Raise
    ELSE Return(collidepoint(element.position, ev.pos[1], ev.pos[2]))

\* dispatch_to_target, target None: every entry of the event type's map
RECURSIVE dispatch_items(_, _, _, _)
dispatch_items(application, items, i, acc) ==
    IF i > Len(items)
    THEN [raised |-> FALSE, invoked |-> acc]
    ELSE IF items[i].key = "*"
    THEN dispatch_items(application, items, i + 1,
                        acc \o InvokeAll(items[i].value, "application", NoElement))
    ELSE IF items[i].value = <<>>
    THEN dispatch_items(application, items, i + 1, acc)
    ELSE IF items[i].key \notin DictKeys(application.elements.v)
    THEN [raised |-> TRUE, invoked |-> acc]
    ELSE dispatch_items(application, items, i + 1,
                        acc \o InvokeAll(items[i].value, "element",
                                         DictGet(application.elements.v,
                                                 items[i].key, NoElement)))

\* a faulty dispatch, for sensitivity checks: the target is ignored
dispatch_to_target_broadcast(application, ev, target) ==
    dispatch_items(application, DictGet(application.listeners.v, ev.type, <<>>),
                   1, <<>>)

\* dispatch_to_target; target is None or Some(element id)
dispatch_to_target(application, ev, target) ==
    LET listeners == DictGet(application.listeners.v, ev.type, <<>>)
    IN  IF ~target.none
        THEN LET own == DictGet(listeners, target.v, <<>>)
             IN  IF own = <<>>
                 THEN [raised |-> FALSE, invoked |-> <<>>]
                 ELSE IF target.v \notin DictKeys(application.elements.v)
                 THEN [raised |-> TRUE, invoked |-> <<>>]
                 ELSE [raised |-> FALSE,
                       invoked |-> InvokeAll(own, "element",
                                             DictGet(application.elements.v,
                                                     target.v, NoElement))]
        ELSE dispatch_items(application, listeners, 1, <<>>)

\* dispatch_mouse, the body of the task group: the targets of the child
\* tasks it creates, in order; raised when an element of a listener key is
\* missing or has no Rect
RECURSIVE dispatch_mouse_targets(_, _, _, _, _)
dispatch_mouse_targets(application, ev, keys, i, acc) ==
    IF i > Len(keys)
    THEN [raised |-> FALSE, targets |-> acc]
    ELSE IF keys[i].key = "*"
    THEN dispatch_mouse_targets(application, ev, keys, i + 1, acc)
    ELSE IF keys[i].key \notin DictKeys(application.elements.v)
    THEN [raised |-> TRUE, targets |-> acc]
    ELSE LET hit == check_is_collide(
                        DictGet(application.elements.v, keys[i].key, NoElement), ev)
         IN  IF hit.raised
             THEN [raised |-> TRUE, targets |-> acc]
             ELSE dispatch_mouse_targets(application, ev, keys, i + 1,
                      IF hit.value THEN Append(acc, Some(keys[i].key)) ELSE acc)

\* the child tasks of the group run in the order they were created; each
\* was made ready before the group learns that an earlier one failed
RECURSIVE dispatch_children(_, _, _, _, _)
dispatch_children(application, ev, targets, i, acc) ==
    IF i > Len(targets)
    THEN acc
    ELSE LET out == dispatch_to_target(application, ev, targets[i])
         IN  dispatch_children(application, ev, targets, i + 1,
                 [raised |-> acc.raised \/ out.raised,
                  invoked |-> acc.invoked \o out.invoked])

\* dispatch_mouse: a body that raises cancels the children before they start
dispatch_mouse(application, ev) ==
    LET body == dispatch_mouse_targets(
                    application, ev,
                    DictGet(application.listeners.v, ev.type, <<>>), 1, <<None>>)
    IN  IF body.raised
        THEN [raised |-> TRUE, invoked |-> <<>>]
        ELSE dispatch_children(application, ev, body.targets, 1,
                               [raised |-> FALSE, invoked |-> <<>>])

---------------------------------------------------------------------------
(* The dispatcher on the registries and element maps the registry          *)
(* operations build: `state` is the Application a dispatch request is      *)
(* called with.                                                            *)

RECURSIVE SumLen(_, _)
SumLen(d, i) == IF i > Len(d) THEN 0 ELSE Len(d[i].value) + SumLen(d, i + 1)

RECURSIVE CountListeners(_, _)
CountListeners(listeners, i) ==
    IF i > Len(listeners) THEN 0
    ELSE SumLen(listeners[i].value, 1) + CountListeners(listeners, i + 1)

Targets == {None} \cup {Some(e) : e \in Elements}

\* listener_add on the registry of the Application
RegistryListenerAdd ==
    /\ CountListeners(state.listeners.v, 1) < MaxListeners
    /\ \E target \in Targets, event_type \in EventTypes, listener \in ListenerOps :
           state' = [state EXCEPT !.listeners =
                         Some(listener_add(state.listeners.v, target,
                                           event_type, listener))]
    /\ UNCHANGED <<mailbox, consumer, requests, tasks, futures, applied,
                   exit_event, actor, event, invoked,
                   sysvars>>

\* element_update on the elements of the Application
RegistryElementUpdate ==
    /\ \E e \in Elements :
           state' = [state EXCEPT !.elements = Some(element_update(state.elements.v, e))]
    /\ UNCHANGED <<mailbox, consumer, requests, tasks, futures, applied,
                   exit_event, actor, event, invoked,
                   sysvars>>

\* dispatch_mouse called with the Application and a MOUSEBUTTONDOWN at p
DispatchMouse ==
    /\ \E p \in Points :
           /\ event' = [type |-> MOUSEBUTTONDOWN, pos |-> p, target |-> None]
           /\ invoked' = dispatch_mouse(state, event').invoked
    /\ UNCHANGED <<mailbox, state, consumer, requests, tasks, futures, applied,
                   exit_event, actor,
                   sysvars>>

NextDispatch ==
    \/ RegistryListenerAdd
    \/ RegistryElementUpdate
    \/ DispatchMouse

SpecDispatch == Init /\ [][NextDispatch]_vars

Range(q) == {q[i] : i \in 1..Len(q)}

Count(q, x) == Cardinality({i \in 1..Len(q) : q[i] = x})

SameInvocations(a, b) ==
    \A x \in Range(a) \cup Range(b) : Count(a, x) = Count(b, x)

\* the listener keys of event type t whose element's bounds contain p
RECURSIVE HitInvocations(_, _, _, _)
HitInvocations(application, ev, items, i) ==
    IF i > Len(items) THEN <<>>
    ELSE LET e == DictGet(application.elements.v, items[i].key, NoElement)
         IN  (IF /\ items[i].key # "*"
                 /\ e.position # <<>>
                 /\ collidepoint(e.position, ev.pos[1], ev.pos[2])
              THEN InvokeAll(items[i].value, "element", e)
              ELSE <<>>)
             \o HitInvocations(application, ev, items, i + 1)

\* what a pointer-button occurrence is to invoke: the wildcard listeners of
\* its type with the Application, and the listeners of each element hit
ExpectedInvocations(application, ev) ==
    LET listeners == DictGet(application.listeners.v, ev.type, <<>>)
    IN  InvokeAll(DictGet(listeners, "*", <<>>), "application", NoElement)
        \o HitInvocations(application, ev, listeners, 1)

\* C10: a pointer-button occurrence of type t at p invokes each wildcard
\* listener of t once with the Application, each listener of each element
\* that has a listener for t and whose bounds contain p once with that
\* element, and nothing else (when every element of a listener key is
\* present with its bounds, so that the dispatch itself does not fail).
C10_DispatchExact ==
    [][(/\ <<event, invoked>>' # <<event, invoked>>
        /\ ~dispatch_mouse(state, event').raised) =>
          SameInvocations(invoked', ExpectedInvocations(state, event'))]_vars

---------------------------------------------------------------------------
(* game.py: the event registry, and the occurrences posted through it *)

QUIT == 256

\* the members of SystemEvent, in the order `for event in SystemEvent` takes
SystemEvent == <<"INIT", "EXIT", "REFRESH", "FRAME_NEXT">>

\* event_register, with the tag pygame.event.custom_type() hands out
event_register(events, key, tag) == DictSet(events, key, tag)

\* event_register_system: the members from the i-th on, tags from `tag` on
RECURSIVE event_register_system(_, _, _)
event_register_system(application, i, tag) ==
    IF i > Len(SystemEvent)
    THEN application
    ELSE event_register_system(
             [application EXCEPT !.events =
                  Some(event_register(application.events.v, SystemEvent[i], tag))],
             i + 1, tag + 1)

application_init(application, tag) == event_register_system(application, 1, tag)

\* event_post: the Event handed to pygame.event.post, None when the key is
\* not registered; target is None or Some(element id), and the Event has
\* the attribute __target__ only when a target was given
event_post(events, key, target) ==
    IF DictGet(events, key, 0) # 0
    THEN Some([type |-> DictGet(events, key, 0), pos |-> <<>>, target |-> target])
    ELSE None

\* a faulty match, for sensitivity checks: an occurrence without target is
\* routed nowhere
process_route_targeted(ev) ==
    IF ~ev.target.none /\ ev.type >= USEREVENT
    THEN <<ExecuteRequest(Operation("dispatch_to_target", <<ev, ev.target>>),
                          NoField, FALSE)>>
    ELSE <<>>

\* process, the match on one drained occurrence: the requests it enqueues
process_route(ev) ==
    IF ev.type = QUIT
    THEN <<ExecuteRequest(Operation("event_quit", <<>>), "exit_event", FALSE)>>
    ELSE IF ev.type = MOUSEBUTTONDOWN
    THEN <<ExecuteRequest(Operation("dispatch_mouse", <<ev>>), NoField, FALSE)>>
    ELSE IF ~ev.target.none /\ ev.type >= USEREVENT
    THEN <<ExecuteRequest(Operation("dispatch_to_target", <<ev, ev.target>>),
                          NoField, FALSE)>>
    ELSE IF ev.type >= USEREVENT
    THEN <<ExecuteRequest(Operation("dispatch_to_target", <<ev, None>>),
                          NoField, FALSE)>>
    ELSE <<>>

---------------------------------------------------------------------------
(* Custom and system occurrences on the registries the registry operations *)
(* build, from the Application application_init returns.                   *)

PostTargets == {None} \cup {Some(id) : id \in ElementIds}

\* the keys occurrences are posted for
PostKeys == {"FRAME_NEXT"}

InitCustom ==
    /\ mailbox = <<>>
    /\ state = application_init(InitialState, USEREVENT + 1)
    /\ consumer = [pc |-> "waiting", request |-> 0]
    /\ requests = <<>>
    /\ tasks = <<>>
    /\ futures = <<>>
    /\ applied = <<>>
    /\ exit_event = FALSE
    /\ actor = "waiting"
    /\ event = [type |-> MOUSEBUTTONDOWN, pos |-> <<0, 0>>, target |-> None]
    /\ invoked = <<>>
    /\ custom_type = USEREVENT + 1 + Len(SystemEvent)
    /\ pygame_queue = <<>>
    /\ poll = NoPoll
    /\ proc = [n \in ProcNames |-> NoProc]

\* listeners_remove on the registry of the Application
RegistryListenersRemove ==
    /\ \E e \in Elements :
           state' = [state EXCEPT !.listeners =
                         Some(listeners_remove(state.listeners.v, e))]
    /\ UNCHANGED <<mailbox, consumer, requests, tasks, futures, applied,
                   exit_event, actor, event, invoked, sysvars>>

\* event_post(events, key, target), the poll loop's routing of the posted
\* occurrence, and the dispatch_to_target it asks for, on the Application
DispatchCustom ==
    /\ \E key \in PostKeys, target \in PostTargets :
           LET posted == event_post(state.events.v, key, target)
           IN  /\ ~posted.none
               /\ LET route == process_route(posted.v)
                  IN  /\ Len(route) = 1
                      /\ route[1].operation.op = "dispatch_to_target"
                      /\ event' = route[1].operation.args[1]
                      /\ invoked' = dispatch_to_target(
                                        state, route[1].operation.args[1],
                                        route[1].operation.args[2]).invoked
    /\ UNCHANGED <<mailbox, state, consumer, requests, tasks, futures, applied,
                   exit_event, actor, sysvars>>

NextCustom ==
    \/ RegistryListenerAdd
    \/ RegistryElementUpdate
    \/ DispatchCustom

SpecCustom == InitCustom /\ [][NextCustom]_vars

\* a step that dispatched an occurrence
Dispatched == <<event, invoked>>' # <<event, invoked>>

\* the listeners of (type of ev, target of ev), each with that element
OwnInvocations(application, ev) ==
    InvokeAll(DictGet(DictGet(application.listeners.v, ev.type, <<>>),
                      ev.target.v, <<>>),
              "element", DictGet(application.elements.v, ev.target.v, NoElement))

\* the wildcard listeners of the type of ev, each with the Application
WildcardInvocations(application, ev) ==
    InvokeAll(DictGet(DictGet(application.listeners.v, ev.type, <<>>), "*", <<>>),
              "application", NoElement)

\* the listeners of every element key, each with its element
RECURSIVE ElementInvocations(_, _, _)
ElementInvocations(application, items, i) ==
    IF i > Len(items) THEN <<>>
    ELSE (IF items[i].key # "*" /\ items[i].key \in DictKeys(application.elements.v)
          THEN InvokeAll(items[i].value, "element",
                         DictGet(application.elements.v, items[i].key, NoElement))
          ELSE <<>>)
         \o ElementInvocations(application, items, i + 1)

BroadcastInvocations(application, ev) ==
    WildcardInvocations(application, ev)
    \o ElementInvocations(application,
                          DictGet(application.listeners.v, ev.type, <<>>), 1)

---------------------------------------------------------------------------
(* The order of the listeners of one target *)

ListenerKeys == {"*"} \cup ElementIds

\* the tuple of (event type, target key) in a registry
ListenersOf(listeners, event_type, key) ==
    DictGet(DictGet(listeners, event_type, <<>>), key, <<>>)

IsOfKey(invocation, key) ==
    IF key = "*" THEN invocation.kind = "application"
    ELSE invocation.kind = "element" /\ invocation.element.id = key

\* the listener tasks a dispatch created for one target key, in the order it
\* created them
InvocationsOf(invocations, key) ==
    SelectSeq(invocations, LAMBDA x : IsOfKey(x, key))

\* C19: a step that changes the registry by listener_add appends the new
\* listener at the end of the tuple of (event type, target key), the
\* wildcard key when no target was given, and leaves every other tuple as
\* it was, so that a tuple holds its listeners in insertion order; and a
\* dispatch that schedules the listeners of a target schedules them in the
\* order of the tuple.
C19_InsertionOrder ==
    [][/\ state'.listeners # state.listeners =>
              \E t \in EventTypes, k \in ListenerKeys, op \in ListenerOps :
                  /\ ListenersOf(state'.listeners.v, t, k) =
                         Append(ListenersOf(state.listeners.v, t, k), Listener(t, op))
                  /\ \A t2 \in EventTypes, k2 \in ListenerKeys :
                         <<t2, k2>> # <<t, k>> =>
                             ListenersOf(state'.listeners.v, t2, k2) =
                                 ListenersOf(state.listeners.v, t2, k2)
       /\ Dispatched =>
              \A k \in ListenerKeys :
                  LET scheduled == InvocationsOf(invoked', k)
                      tuple == ListenersOf(state.listeners.v, event'.type, k)
                  IN  scheduled # <<>> =>
                          /\ Len(scheduled) = Len(tuple)
                          /\ \A i \in 1..Len(tuple) :
                                 /\ scheduled[i].op = tuple[i].op
                                 /\ scheduled[i].event_type = tuple[i].event_type]_vars

\* two listeners registered for one element, L2 before L1, and scheduled by
\* a dispatch in that order
C19_Witness ==
    /\ ~event.target.none
    /\ Len(invoked) = 2
    /\ invoked[1].op = "L2"
    /\ invoked[2].op = "L1"
    /\ ListenersOf(state.listeners.v, event.type, event.target.v) =
           <<Listener(event.type, "L2"), Listener(event.type, "L1")>>

---------------------------------------------------------------------------
(* The registry operations on their own: listeners added and removed,     *)
(* event keys registered, from the Application application_init returns.  *)

MaxEventTypes == 3    \* calls of pygame.event.custom_type() after start-up

\* the keys an application registers: a system key again, and one of its own
RegisterKeys == {"INIT", "CLICKED"}

\* event_register on the events of the Application
RegistryEventRegister ==
    /\ custom_type < USEREVENT + 1 + Len(SystemEvent) + MaxEventTypes
    /\ \E key \in RegisterKeys :
           state' = [state EXCEPT !.events =
                         Some(event_register(state.events.v, key, custom_type))]
    /\ custom_type' = custom_type + 1
    /\ UNCHANGED <<mailbox, consumer, requests, tasks, futures, applied,
                   exit_event, actor, event, invoked, pygame_queue, poll, proc>>

NextRegistry ==
    \/ RegistryListenerAdd
    \/ RegistryListenersRemove
    \/ RegistryEventRegister

SpecRegistry == InitCustom /\ [][NextRegistry]_vars

\* C18: registering an event key leaves every key already present with the
\* tag it had, the key being registered included: a tag is allocated only
\* for a key that is absent.
C18_RegisterIdempotent ==
    [][\A key \in DictKeys(state.events.v) :
           DictGet(state'.events.v, key, 0) = DictGet(state.events.v, key, 0)]_vars

\* C20: listeners_remove on any registry and element gives a registry in
\* which the element's identity is a target key of no event type and the
\* tuples of the wildcard key and of every other element are as before for
\* every event type; for an element without listeners it gives the registry
\* it was given; and applying it again changes nothing.
C20_ListenersRemoved ==
    \A e \in Elements :
        LET before == state.listeners.v
            after == listeners_remove(before, e)
        IN  /\ \A t \in DictKeys(after) : e.id \notin DictKeys(DictGet(after, t, <<>>))
            /\ DictKeys(after) = DictKeys(before)
            /\ \A t \in DictKeys(before), k \in ListenerKeys \ {e.id} :
                   /\ ListenersOf(after, t, k) = ListenersOf(before, t, k)
                   /\ k \in DictKeys(DictGet(after, t, <<>>))
                          <=> k \in DictKeys(DictGet(before, t, <<>>))
            /\ (\A t \in DictKeys(before) : e.id \notin DictKeys(DictGet(before, t, <<>>)))
                   => after = before
            /\ listeners_remove(after, e) = after

\* the listeners of an element were removed (its event type is left with an
\* empty map) while another event type keeps its wildcard listener
C20_Witness ==
    /\ \E t \in DictKeys(state.listeners.v) : DictGet(state.listeners.v, t, <<"x">>) = <<>>
    /\ \E t \in DictKeys(state.listeners.v) :
           ListenersOf(state.listeners.v, t, "*") # <<>>

---------------------------------------------------------------------------
(* common.py: the fold under cancellation.  Task.cancel() on the consume   *)
(* task throws CancelledError in at the await it is suspended at:          *)
(* queue.get(), or the SetRequest being awaited.                           *)

\* a faulty fold, for sensitivity checks: the mutate that was interrupted is
\* taken as applied
coroutine_reduce_partial(result, c) ==
    IF c.pc = "mutating" /\ ~SetRequestCall(requests[c.request], result).raised
    THEN SetRequestCall(requests[c.request], result).value
    ELSE result

\* coroutine_reduce, `except asyncio.CancelledError: pass` and `return
\* result`: result was last assigned by the last call of consume that
\* returned
coroutine_reduce_cancelled(result, c) == result

\* the consume task is cancelled at its suspension point; the fold returns
CancelConsume ==
    /\ consumer.pc \in {"waiting", "mutating"}
    /\ consumer' = [consumer EXCEPT !.pc = "done"]
    /\ state' = coroutine_reduce_cancelled(state, consumer)
    /\ UNCHANGED <<mailbox, requests, tasks, futures, applied, exit_event, actor,
                   event, invoked, sysvars>>

NextCancel ==
    \/ Next
    \/ CancelConsume

SpecCancel == Init /\ [][NextCancel]_vars

\* C17: the step that cancels the consume loop, at queue.get() or inside a
\* mutate, ends the fold normally with the State as the last fully applied
\* mutate left it (the interrupted one contributes nothing, and nothing is
\* taken from the mailbox); afterwards the State and the applied mutates
\* never change and every request in the mailbox stays there.
C17_CancelKeepsState ==
    [][/\ consumer'.pc = "done" =>
              /\ state' = state
              /\ applied' = applied
              /\ state' = FoldSets(InitialState, applied, Len(applied))
              /\ IsPrefix(mailbox, mailbox')
       /\ consumer.pc = "done" => consumer' = consumer]_vars

\* the loop was cancelled inside a mutate that would have changed the State,
\* after an earlier mutate was applied, with requests left in the mailbox
C17_Witness ==
    /\ consumer.pc = "done"
    /\ consumer.request # 0
    /\ Len(applied) >= 1
    /\ mailbox # <<>>
    /\ ~SetRequestCall(requests[consumer.request], state).raised
    /\ SetRequestCall(requests[consumer.request], state).value # state

---------------------------------------------------------------------------
(* The running system: event.run and its poll loop, the mailbox actor     *)
(* started by game.run, and pygame's event queue between them.  Here       *)
(* `invoked` collects the listener tasks of every dispatch, in order.      *)

MaxCycles == 2        \* poll cycles in one behaviour
MaxOccurrences == 1   \* occurrences pygame itself posts in one behaviour

\* application_setup of animation2: the system events registered, and one
\* wildcard listener for INIT
SetupState ==
    LET application == application_init(InitialState, USEREVENT + 1)
    IN  [application EXCEPT !.listeners =
             Some(listener_add_list(
                      application.listeners.v, None,
                      << <<DictGet(application.events.v, "INIT", 0), "L1">> >>).value)]

\* what pygame posts by itself: the window is closed, a button is pressed
EnvOccurrences ==
    { [type |-> QUIT, pos |-> <<>>, target |-> None],
      [type |-> MOUSEBUTTONDOWN, pos |-> <<0, 0>>, target |-> None] }

InitPoll ==
    /\ mailbox = <<>>
    /\ state = SetupState
    /\ consumer = [pc |-> "unstarted", request |-> 0]
    /\ requests = <<>>
    /\ tasks = <<>>
    /\ futures = <<>>
    /\ applied = <<>>
    /\ exit_event = FALSE
    /\ actor = "unstarted"
    /\ event = [type |-> MOUSEBUTTONDOWN, pos |-> <<0, 0>>, target |-> None]
    /\ invoked = <<>>
    /\ custom_type = USEREVENT + 1 + Len(SystemEvent)
    /\ pygame_queue = <<>>
    /\ poll = NoPoll
    /\ proc = [n \in ProcNames |-> NoProc]

\* put_nowait of several requests one after the other; rs[i] is a request
\* with the Future made for it
PutAll(rs) ==
    /\ requests' = requests \o [i \in 1..Len(rs) |-> rs[i].request]
    /\ mailbox' = mailbox \o [i \in 1..Len(rs) |-> Len(requests) + i]
    /\ tasks' = tasks \o [i \in 1..Len(rs) |-> NoTask]
    /\ futures' = futures \o [i \in 1..Len(rs) |-> rs[i].future]

WithFuture(request) ==
    [request |-> request,
     future |-> IF request.reply_to THEN NewFuture ELSE NoFuture]

\* event.run: the poll loop task is created and the INIT post is enqueued
EventRun ==
    /\ poll.pc = "unstarted"
    /\ poll' = [poll EXCEPT !.pc = "ready"]
    /\ PutAll(<<WithFuture(ExecuteRequest(Operation("event_post", <<"INIT">>),
                                          "events", FALSE))>>)
    /\ UNCHANGED <<state, consumer, applied, exit_event, actor, event, invoked,
                   custom_type, pygame_queue, proc>>

\* game.run and actor.run: the consume loop is created with the State setup
\* returned.  The task of actor.run is created in the first step of
\* game.run, when the task group has already made event.run ready, so it
\* runs after the first step of event.run
ActorRun ==
    /\ consumer.pc = "unstarted"
    /\ poll.pc # "unstarted"
    /\ consumer' = [pc |-> "waiting", request |-> 0]
    /\ actor' = "waiting"
    /\ UNCHANGED <<mailbox, state, requests, tasks, futures, applied, exit_event,
                   event, invoked, sysvars>>

\* pygame posts an occurrence of its own
EnvPost ==
    /\ Cardinality({i \in 1..Len(pygame_queue) : pygame_queue[i] \in EnvOccurrences})
       + Cardinality({i \in 1..Len(requests) :
                          requests[i].operation.op \in {"event_quit", "dispatch_mouse"}})
       < MaxOccurrences
    /\ \E ev \in EnvOccurrences : pygame_queue' = Append(pygame_queue, ev)
    /\ UNCHANGED <<mailbox, state, consumer, requests, tasks, futures, applied,
                   exit_event, actor, event, invoked, custom_type, poll, proc>>

\* a faulty await, for sensitivity checks: it does not wait
AwaitNothing(f) == TRUE

\* `await sync_post` goes on once the Future has a result
AwaitDone(f) == f.status = "done"

\* process, the for loop: the requests for the drained occurrences, in order
RECURSIVE process_events(_, _)
process_events(events, i) ==
    IF i > Len(events) THEN <<>>
    ELSE process_route(events[i]) \o process_events(events, i + 1)

\* process, in the order of its puts: execute_sync of the REFRESH post
\* first, then the requests for the occurrences pygame.event.get() returned
process(events) ==
    <<ExecuteRequest(Operation("event_post", <<"REFRESH">>), "events", TRUE)>>
    \o process_events(events, 1)

\* one call of process by coroutine_loop: it runs to `await sync_post`
\* without suspending, and the next call starts when that await ends
Process ==
    /\ poll.pc = "ready"
    /\ poll.cycle < MaxCycles
    /\ IF poll.sync = 0 THEN TRUE ELSE AwaitDone(futures[poll.sync])
    /\ LET puts == process(pygame_queue)
       IN  /\ PutAll([i \in 1..Len(puts) |-> WithFuture(puts[i])])
           /\ poll' = [poll EXCEPT
                  !.cycle = poll.cycle + 1,
                  !.sync = Len(requests) + 1,
                  !.dispatched = [i \in 1..(Len(puts) - 1) |->
                                      Len(requests) + 1 + i]]
    /\ pygame_queue' = <<>>
    /\ UNCHANGED <<state, consumer, applied, exit_event, actor, event, invoked,
                   custom_type, proc>>

\* the callables the dispatcher hands to execute and execute_sync, called
\* with the argument the request read: what they post, which listener tasks
\* they create, whether they set the stop signal, whether they raise
SystemOpCall(operation, arg) ==
    LET nothing == [raised |-> FALSE, posted |-> <<>>, invoked |-> <<>>,
                    quit |-> FALSE, value |-> None]
    IN  CASE operation.op = "event_post" ->
                 LET posted == event_post(arg.v, operation.args[1], None)
                 IN  [nothing EXCEPT !.posted = IF posted.none THEN <<>>
                                                ELSE <<posted.v>>]
          [] operation.op = "event_quit" -> [nothing EXCEPT !.quit = TRUE]
          [] operation.op = "dispatch_mouse" ->
                 LET out == dispatch_mouse(arg.v, operation.args[1])
                 IN  [nothing EXCEPT !.raised = out.raised, !.invoked = out.invoked]
          [] operation.op = "dispatch_to_target" ->
                 LET out == dispatch_to_target(arg.v, operation.args[1],
                                               operation.args[2])
                 IN  [nothing EXCEPT !.raised = out.raised, !.invoked = out.invoked]
          [] operation.op = "_update" ->
                 \* display.py's _update: the queued rectangles are drawn
                 \* (not part of the State), FRAME_NEXT is posted, True
                 LET posted == event_post(arg.v.events.v, "FRAME_NEXT", None)
                 IN  [nothing EXCEPT !.posted = IF posted.none THEN <<>>
                                                ELSE <<posted.v>>,
                                     !.value = Some(TRUE)]

\* ExecuteRequest.__call__ for a dispatcher callable, up to the end of the
\* task of the callable: the argument is read from the state the request was
\* called with, and the callable runs
SystemOperationRun(i) ==
    /\ tasks[i].pc = "created"
    /\ LET arg == RequestArgument(ExecuteRequestState(i), requests[i].field)
           out == SystemOpCall(requests[i].operation, arg)
       IN  /\ tasks' = [tasks EXCEPT
                  ![i].pc = IF out.raised THEN "failed"
                            ELSE IF requests[i].reply_to THEN "returned" ELSE "done",
                  ![i].arg = arg,
                  ![i].result = out.value]
           /\ pygame_queue' = pygame_queue \o out.posted
           /\ invoked' = invoked \o out.invoked
           /\ exit_event' = (exit_event \/ out.quit)
    /\ UNCHANGED <<mailbox, state, consumer, requests, futures, applied, actor,
                   event, custom_type, poll, proc>>

NextPoll ==
    \/ EventRun
    \/ ActorRun
    \/ EnvPost
    \/ Process
    \/ ConsumeExecute
    \/ \E i \in 1..Len(tasks) : SystemOperationRun(i)
    \/ \E i \in 1..Len(tasks) : ExecuteRequestReply(i)

SpecPoll == InitPoll /\ [][NextPoll]_vars

\* the tag INIT was registered with
InitType == DictGet(SetupState.events.v, "INIT", 0)

\* the request is in the mailbox, or its task was created and has not run
NotYetRun(i) == InMailbox(i) \/ tasks[i].pc = "created"

\* the invocations of the wildcard listener L1 for INIT
InitInvocations ==
    {i \in 1..Len(invoked) :
         invoked[i].event_type = InitType /\ invoked[i].op = "L1"}

\* where the INIT occurrence is on its way: the post request, the occurrence
\* in pygame's queue, the dispatch request
InitOnTheWay ==
    Cardinality({i \in 1..Len(requests) :
                     /\ requests[i].operation.op = "event_post"
                     /\ requests[i].operation.args[1] = "INIT"
                     /\ NotYetRun(i)})
    + Cardinality({k \in 1..Len(pygame_queue) : pygame_queue[k].type = InitType})
    + Cardinality({i \in 1..Len(requests) :
                       /\ requests[i].operation.op = "dispatch_to_target"
                       /\ requests[i].operation.args[1].type = InitType
                       /\ NotYetRun(i)})

\* C12: with a wildcard listener L1 registered for INIT in the initial
\* State, the INIT post of event.run, enqueued before the consume loop has
\* started, is kept in the mailbox until the loop starts; from then on the
\* occurrence is at exactly one stage of its way (post request, pygame's
\* queue, dispatch request) or L1 has been invoked for it, and L1 is invoked
\* once at most, with the Application as target.
C12_InitOnce ==
    /\ poll.pc = "unstarted" => invoked = <<>> /\ consumer.pc = "unstarted"
    /\ consumer.pc = "unstarted" => Len(mailbox) = Len(requests)
    /\ poll.pc # "unstarted" => InitOnTheWay + Cardinality(InitInvocations) = 1
    /\ \A i \in InitInvocations :
           invoked[i].kind = "application" /\ invoked[i].element = NoElement

\* L1 was invoked for INIT, and nothing of the occurrence is left on the way
C12_Witness ==
    /\ Cardinality(InitInvocations) = 1
    /\ InitOnTheWay = 0
    /\ requests[1].operation.op = "event_post"
    /\ requests[1].operation.args[1] = "INIT"
    /\ poll.cycle = 2

\* C13 as stated: in every poll cycle the refresh request is enqueued after
\* the dispatch requests of the occurrences drained in that cycle, and the
\* next cycle starts only when its reply has resolved.
C13_RefreshLast ==
    [][poll'.cycle # poll.cycle =>
          /\ \A j \in Range(poll'.dispatched) : j < poll'.sync
          /\ IF poll.sync = 0 THEN TRUE ELSE futures[poll.sync].status = "done"]_vars

\* C13, amended: in every poll cycle the refresh request (a REFRESH post
\* with a reply Future) is enqueued before the dispatch requests of the
\* occurrences drained in that cycle, all of them at the end of the mailbox
\* in that order, and the next cycle starts only when the reply of the
\* refresh request of the cycle before has resolved.
C13_RefreshFirstAwaited ==
    [][poll'.cycle # poll.cycle =>
          /\ poll'.sync = Len(requests) + 1
          /\ requests'[poll'.sync].operation = Operation("event_post", <<"REFRESH">>)
          /\ requests'[poll'.sync].reply_to
          /\ futures'[poll'.sync].status = "pending"
          /\ \A j \in Range(poll'.dispatched) : poll'.sync < j
          /\ Len(poll'.dispatched) = Len(pygame_queue)
          /\ mailbox' = mailbox \o <<poll'.sync>> \o poll'.dispatched
          /\ IF poll.sync = 0 THEN TRUE ELSE futures[poll.sync].status = "done"]_vars

\* a second cycle has started, and drained occurrences
C13_Witness ==
    /\ poll.cycle = 2
    /\ poll.dispatched # <<>>
    /\ futures[poll.sync].status = "done"

---------------------------------------------------------------------------
(* core.py: the orchestrator and the life of its tasks.  `proc` holds the  *)
(* tasks by the coroutine they run; `tasks` holds the listener tasks in    *)
(* flight, whose pc is "running", "cancelling" once Task.cancel was        *)
(* called, and "done" or "cancelled" at the end.  What the loops do with   *)
(* the mailbox is left to the specifications above.                        *)

MaxInFlight == 2      \* listener tasks created in one behaviour

\* the tasks main_loop submits to its task group
Children == {"game_run", "display_run", "event_run"}

\* the tasks that run coroutine_loop or coroutine_reduce
Loops == {"consume", "process", "update"}

Live == {"ready", "waiting", "aborting"}

Ended == {"done", "cancelled", "failed"}

\* Task.cancel() on each of the tasks `names` that has not ended
Cancel(p, names) ==
    [n \in DOMAIN p |->
         IF n \in names /\ p[n].pc \in Live THEN [p[n] EXCEPT !.cancel = TRUE]
         ELSE p[n]]

CancelListeners(ts) ==
    [i \in 1..Len(ts) |->
         IF ts[i].pc = "running" THEN [ts[i] EXCEPT !.pc = "cancelling"] ELSE ts[i]]

\* a faulty handler, for sensitivity checks: it cancels the tasks of the
\* task group only
group_tasks == Children

\* asyncio.all_tasks(): the tasks of the loop that are not done (the
\* listener tasks in `tasks` are cancelled along with them)
all_tasks == TaskNames

\* main_loop up to the end of the body of its task group: the stop signal
\* and the mailbox are made, the signal handlers installed, the three
\* coroutines submitted
MainLoop ==
    /\ proc["main_loop"].pc = "absent"
    /\ proc' = [n \in ProcNames |->
                    IF n = "main_loop" THEN [pc |-> "waiting", cancel |-> FALSE]
                    ELSE IF n \in Children THEN [pc |-> "ready", cancel |-> FALSE]
                    ELSE proc[n]]
    /\ UNCHANGED <<mailbox, state, consumer, requests, tasks, futures, applied,
                   exit_event, actor, event, invoked, custom_type, pygame_queue,
                   poll>>

\* a step of a task that is not a step of main_loop's own
Step(p) ==
    /\ proc' = p
    /\ UNCHANGED <<mailbox, state, consumer, requests, tasks, futures, applied,
                   exit_event, actor, event, invoked, custom_type, pygame_queue,
                   poll>>

Runnable(n, pc) == proc[n].pc = pc /\ ~proc[n].cancel

\* game.run up to `await exit_event.wait()`: the setup hook returns and the
\* task of actor.run is created, or the setup hook raises
GameRun ==
    /\ Runnable("game_run", "ready")
    /\ \/ Step([proc EXCEPT !["game_run"].pc = "waiting",
                            !["actor_run"].pc = "ready"])
       \/ Step([proc EXCEPT !["game_run"].pc = "failed"])

\* actor.run up to `await exit_event.wait()`: the consume loop is created
ActorRunTask ==
    /\ Runnable("actor_run", "ready")
    /\ Step([proc EXCEPT !["actor_run"].pc = "waiting", !["consume"].pc = "ready"])

\* display.run up to `await exit_event.wait()`: the render-tick loop is
\* created
DisplayRun ==
    /\ Runnable("display_run", "ready")
    /\ Step([proc EXCEPT !["display_run"].pc = "waiting", !["update"].pc = "ready"])

\* event.run up to `await exit_event.wait()`: the poll loop is created
EventRunTask ==
    /\ Runnable("event_run", "ready")
    /\ Step([proc EXCEPT !["event_run"].pc = "waiting", !["process"].pc = "ready"])

\* coroutine_loop / coroutine_reduce: the loop runs to its first await
LoopStart ==
    \E n \in Loops :
        /\ Runnable(n, "ready")
        /\ Step([proc EXCEPT ![n].pc = "waiting"])

\* `await exit_event.wait()` ends in one of the run coroutines
RunReturn ==
    \E n \in Children \cup {"actor_run"} :
        /\ Runnable(n, "waiting")
        /\ exit_event
        /\ Step([proc EXCEPT ![n].pc = "done"])

\* the CancelledError is thrown into a cancelled task: coroutine_loop and
\* coroutine_reduce swallow it and return, the other coroutines end with it
\* (a task that has not started ends with it before its first statement)
TaskCancelled ==
    \E n \in TaskNames \ {"main_loop"} :
        /\ proc[n].cancel
        /\ proc[n].pc \in {"ready", "waiting"}
        /\ Step([proc EXCEPT ![n].pc =
                     IF n \in Loops /\ proc[n].pc = "waiting" THEN "done"
                     ELSE "cancelled"])

\* a dispatch creates a listener task, while the consume loop runs
ListenerCreate ==
    /\ Runnable("consume", "waiting")
    /\ Len(tasks) < MaxInFlight
    /\ tasks' = Append(tasks, [NoTask EXCEPT !.pc = "running"])
    /\ UNCHANGED <<mailbox, state, consumer, requests, futures, applied,
                   exit_event, actor, event, invoked, sysvars>>

\* a listener task returns, or ends with the CancelledError thrown in
ListenerEnd ==
    /\ \E i \in 1..Len(tasks) :
           /\ tasks[i].pc \in {"running", "cancelling"}
           /\ tasks' = [tasks EXCEPT ![i].pc = IF tasks[i].pc = "running"
                                               THEN "done" ELSE "cancelled"]
    /\ UNCHANGED <<mailbox, state, consumer, requests, futures, applied,
                   exit_event, actor, event, invoked, sysvars>>

\* a quit occurrence went through the poll loop and the mailbox: the task
\* of event_quit sets the stop signal
EventQuit ==
    /\ Runnable("consume", "waiting")
    /\ Runnable("process", "waiting")
    /\ ~exit_event
    /\ exit_event' = TRUE
    /\ UNCHANGED <<mailbox, state, consumer, requests, tasks, futures, applied,
                   actor, event, invoked, sysvars>>

\* ShutdownHandler.__call__, called by the loop on SIGINT or SIGTERM
ShutdownHandlerCall ==
    /\ proc["main_loop"].pc \in Live
    /\ proc["shutdown_handler"].pc = "absent"
    /\ exit_event' = TRUE
    /\ proc' = [Cancel(proc, all_tasks) EXCEPT !["shutdown_handler"].pc = "done"]
    /\ tasks' = CancelListeners(tasks)
    /\ UNCHANGED <<mailbox, state, consumer, requests, futures, applied, actor,
                   event, invoked, custom_type, pygame_queue, poll>>

\* the task group of main_loop learns that a child ended with an exception:
\* it cancels the children that have not ended
GroupAbort ==
    /\ proc["main_loop"].pc = "waiting"
    /\ \E n \in Children : proc[n].pc = "failed"
    /\ Step([Cancel(proc, Children) EXCEPT !["main_loop"].pc = "aborting"])

\* main_loop is cancelled while it waits in the task group: the group
\* cancels its children and goes on waiting for them
MainLoopCancelled ==
    /\ proc["main_loop"].pc = "waiting"
    /\ proc["main_loop"].cancel
    /\ Step([Cancel(proc, Children) EXCEPT !["main_loop"].pc = "aborting"])

\* every child has ended and the task group is left: with the exception
\* group when a child failed, else with the CancelledError that
\* suppress(CancelledError) takes, or normally
MainLoopEnd ==
    /\ proc["main_loop"].pc \in {"waiting", "aborting"}
    /\ proc["main_loop"].pc = "waiting" => ~proc["main_loop"].cancel
    /\ \A n \in Children : proc[n].pc \in Ended
    /\ Step([proc EXCEPT !["main_loop"].pc =
                 IF \E n \in Children : proc[n].pc = "failed" THEN "failed"
                 ELSE "done"])

NextLifecycle ==
    \/ MainLoop
    \/ GameRun
    \/ ActorRunTask
    \/ DisplayRun
    \/ EventRunTask
    \/ LoopStart
    \/ RunReturn
    \/ TaskCancelled
    \/ ListenerCreate
    \/ ListenerEnd
    \/ EventQuit
    \/ ShutdownHandlerCall
    \/ GroupAbort
    \/ MainLoopCancelled
    \/ MainLoopEnd

SpecLifecycle == Init /\ [][NextLifecycle]_vars

\* every ready task is run by the event loop
SpecLifecycleFair == SpecLifecycle /\ WF_vars(NextLifecycle)

\* the task has ended, or Task.cancel was called on it
Stopped(n) == proc[n].pc \notin Live \/ proc[n].cancel

NoListenerRunning == \A i \in 1..Len(tasks) : tasks[i].pc # "running"

NoChildFailed == \A n \in Children : proc[n].pc # "failed"

\* the stop signal was set by event_quit, not by the shutdown handler
QuitProcessed == exit_event /\ proc["shutdown_handler"].pc = "absent"

\* C14: once the request of a polled quit occurrence is processed, the stop
\* signal is raised and every outstanding task (the consume, poll and
\* render-tick loops, the listeners in flight) is cancelled, so that
\* main_loop has returned only with no such task left running.
C14_QuitStopsAll ==
    (QuitProcessed /\ proc["main_loop"].pc = "done") =>
        /\ \A n \in Loops : Stopped(n)
        /\ NoListenerRunning

\* C15: when the shutdown handler has run on SIGINT or SIGTERM, the stop
\* signal is set and every task that has not ended is cancelled, the
\* listener tasks in flight included, and no task is started afterwards; if
\* no submitted coroutine had failed, main_loop does not raise and
\* eventually returns, with every task ended.
C15_SignalStopsAll ==
    /\ [](proc["shutdown_handler"].pc = "done" =>
              /\ exit_event
              /\ \A n \in TaskNames : Stopped(n)
              /\ NoListenerRunning
              /\ NoChildFailed => proc["main_loop"].pc # "failed")
    /\ (proc["shutdown_handler"].pc = "done" /\ NoChildFailed)
           ~> (/\ proc["main_loop"].pc = "done"
               /\ \A n \in TaskNames : proc[n].pc \notin Live
               /\ \A i \in 1..Len(tasks) : tasks[i].pc \in {"done", "cancelled"})

\* the handler ran with two listener tasks in flight and the three loops
\* waiting; all of them ended by cancellation and main_loop returned
C15_Witness ==
    /\ proc["shutdown_handler"].pc = "done"
    /\ proc["main_loop"].pc = "done"
    /\ \A n \in Loops : proc[n].pc = "done" /\ proc[n].cancel
    /\ Len(tasks) >= 2
    /\ tasks[1].pc = "cancelled"
    /\ tasks[2].pc = "cancelled"

\* C16: when a submitted coroutine has ended with an exception and
\* main_loop has ended, the stop signal is set and every submitted
\* coroutine and every loop task they started is stopped.
C16_FailureStopsAll ==
    (~NoChildFailed /\ proc["main_loop"].pc \in Ended) =>
        /\ exit_event
        /\ \A n \in Children \cup Loops : Stopped(n)

---------------------------------------------------------------------------
(* listener_add_list: several listeners of one target added in one call,   *)
(* as application_setup does for the registry it starts with.              *)

MaxPairs == 2    \* (event_type, listener) pairs in one call

Pairs == EventTypes \X ListenerOps

PairLists == UNION {[1..n -> Pairs] : n \in 0..MaxPairs}

\* the setup of an application calls listener_add_list on the registry of
\* its Application; when the call raises, setup raises and game.run,
\* which awaits it, ends with the exception
RegistryListenerAddList ==
    /\ CountListeners(state.listeners.v, 1) < MaxListeners
    /\ \E target \in Targets, listeners_new \in PairLists :
           LET result == listener_add_list(state.listeners.v, target, listeners_new)
           IN  IF result.raised
               THEN /\ proc' = [proc EXCEPT !["game_run"].pc = "failed"]
                    /\ UNCHANGED state
               ELSE /\ state' = [state EXCEPT !.listeners = Some(result.value)]
                    /\ UNCHANGED proc
    /\ UNCHANGED <<mailbox, consumer, requests, tasks, futures, applied,
                   exit_event, actor, event, invoked, custom_type,
                   pygame_queue, poll>>

NextAddList ==
    \/ RegistryListenerAddList
    \/ RegistryListenersRemove

SpecAddList == InitCustom /\ [][NextAddList]_vars

\* the listeners the pairs from i on name for event type t, in argument order
RECURSIVE PairListeners(_, _, _)
PairListeners(listeners_new, t, i) ==
    IF i > Len(listeners_new) THEN <<>>
    ELSE (IF listeners_new[i][1] = t
          THEN <<Listener(t, listeners_new[i][2])>> ELSE <<>>)
         \o PairListeners(listeners_new, t, i + 1)

\* C22: listener_add_list on any registry, target and tuple of pairs
\* returns (it does not raise); with zero pairs it returns the registry it
\* was given; otherwise, for every event type, the tuple of the target's key
\* is the one of the input followed by the listeners of the pairs of that
\* event type in argument order, and the tuple of every other key is as in
\* the input.
C22_AddListAll ==
    \A target \in Targets, listeners_new \in PairLists :
        LET before == state.listeners.v
            result == listener_add_list(before, target, listeners_new)
        IN  /\ ~result.raised
            /\ Len(listeners_new) = 0 => result.value = before
            /\ \A t \in EventTypes, k \in ListenerKeys :
                   ListenersOf(result.value, t, k)
                       = ListenersOf(before, t, k)
                         \o (IF k = listener_key(target)
                             THEN PairListeners(listeners_new, t, 1) ELSE <<>>)

---------------------------------------------------------------------------
(* The two loops that issue synchronous requests: the poll loop of         *)
(* event.py and the render-tick loop of display.py, with the mailbox       *)
(* actor between them.                                                     *)

MaxFrames == 2    \* render ticks in one behaviour

\* display.run: the render-tick loop task is created
DisplayRunStart ==
    /\ proc["update"].pc = "absent"
    /\ proc' = [proc EXCEPT !["update"].pc = "ready"]
    /\ UNCHANGED <<mailbox, state, consumer, requests, tasks, futures, applied,
                   exit_event, actor, event, invoked, custom_type,
                   pygame_queue, poll>>

\* one call of update by coroutine_loop: execute_sync of _update on the
\* whole Application, and the await of its Future; the next call starts
\* when that await ends
Update ==
    /\ proc["update"].pc = "ready"
    /\ Cardinality({i \in 1..Len(requests) :
                        requests[i].operation.op = "_update"}) < MaxFrames
    /\ IF poll.frame = 0 THEN TRUE ELSE AwaitDone(futures[poll.frame])
    /\ PutAll(<<WithFuture(ExecuteRequest(Operation("_update", <<>>),
                                          NoField, TRUE))>>)
    /\ poll' = [poll EXCEPT !.frame = Len(requests) + 1]
    /\ UNCHANGED <<state, consumer, applied, exit_event, actor, event, invoked,
                   custom_type, pygame_queue, proc>>

\* The event loop runs ready tasks in the order they became ready, and none
\* of the callables of the two loops suspends: the tasks consume created
\* run their callables in the order of their creation, and give their
\* replies in that order.
SystemOperationRunNext(i) ==
    /\ \A j \in 1..(i - 1) : tasks[j].pc # "created"
    /\ SystemOperationRun(i)

ExecuteRequestReplyNext(i) ==
    /\ \A j \in 1..(i - 1) : tasks[j].pc \notin {"created", "returned"}
    /\ ExecuteRequestReply(i)

NextFrame ==
    \/ EventRun
    \/ ActorRun
    \/ DisplayRunStart
    \/ Process
    \/ Update
    \/ ConsumeExecute
    \/ \E i \in 1..Len(tasks) : SystemOperationRunNext(i)
    \/ \E i \in 1..Len(tasks) : ExecuteRequestReplyNext(i)

SpecFrame == InitPoll /\ [][NextFrame]_vars

\* the refresh requests of the poll loop, the tick requests of the
\* render-tick loop
IsRefresh(i) ==
    /\ requests[i].operation = Operation("event_post", <<"REFRESH">>)
    /\ requests[i].reply_to

IsTick(i) == requests[i].operation.op = "_update" /\ requests[i].reply_to

\* request i is in the mailbox, or dequeued with its task not yet ended
Outstanding(i) == InMailbox(i) \/ tasks[i].pc \in {"created", "returned"}

\* C23: at most one refresh request and at most one render-tick request is
\* in the mailbox or in flight, and of the requests either loop has issued
\* every one but the newest has its reply resolved.
C23_OneInFlight ==
    /\ Cardinality({i \in 1..Len(requests) : IsRefresh(i) /\ Outstanding(i)}) <= 1
    /\ Cardinality({i \in 1..Len(requests) : IsTick(i) /\ Outstanding(i)}) <= 1
    /\ \A i, j \in 1..Len(requests) :
           (i < j /\ ((IsRefresh(i) /\ IsRefresh(j)) \/ (IsTick(i) /\ IsTick(j))))
               => /\ futures[i].status = "done"
                  /\ ~Outstanding(i)

\* both loops have gone round: each has issued a second request, and both
\* second requests are waiting in the mailbox
C23_Witness ==
    /\ \E i, j \in 1..Len(requests) :
           i < j /\ IsRefresh(i) /\ IsRefresh(j) /\ InMailbox(j)
    /\ \E i, j \in 1..Len(requests) :
           i < j /\ IsTick(i) /\ IsTick(j) /\ InMailbox(j)

---------------------------------------------------------------------------
(* Listeners as producers: the listeners of animation2 put requests into   *)
(* the mailbox they were dispatched from.  handle_click creates an element *)
(* and registers a FadeOutHandler for it on FRAME_NEXT; the handler asks   *)
(* for the element to be redrawn with execute_sync, awaits the reply, and  *)
(* updates or removes the element.  Here `invoked` holds the listener      *)
(* tasks the dispatches created, each with its position.                   *)

MaxDispatches == 2    \* FRAME_NEXT occurrences routed in one behaviour

\* game.py, the producers' side: the requests each call puts, in order
add_event_listener(target, event_type, listener) ==
    <<SetRequest(Operation("listener_add", <<target, event_type, listener>>),
                 "listeners")>>

\* a faulty remove_element, for sensitivity checks: the listeners stay
remove_element_elements(target) ==
    <<SetRequest(Operation("element_remove", <<target>>), "elements")>>

remove_element(target) ==
    <<SetRequest(Operation("element_remove", <<target>>), "elements"),
      SetRequest(Operation("listeners_remove", <<target>>), "listeners")>>

update_element(target) ==
    <<SetRequest(Operation("element_update", <<target>>), "elements")>>

queue_element(target) ==
    <<ExecuteRequest(Operation("display_update_queue", <<target>>),
                     "display_update", FALSE)>>

\* animation2.py
fade_out(elem) == add_event_listener(Some(elem), FRAME_NEXT, "FadeOutHandler")

\* handle_click: the element is created, fade_out registers its handler,
\* then queue_element and update_element
handle_click(elem) == fade_out(elem) \o queue_element(elem) \o update_element(elem)

\* FadeOutHandler.__call__ after `await future_elem`
FadeOutHandlerResume(elem, alpha) ==
    queue_element(elem)
    \o (IF alpha > 0 THEN update_element(elem) ELSE remove_element(elem))

\* the elements handle_click creates (each has an identity of its own)
FadeElements == {E1}

\* alpha as FadeOutHandler computes it from the time elapsed: positive, or 0
\* when the duration is over
Alphas == {0, 1}

\* a listener task: the invocation it was created for, its position, the
\* Future it awaits and the alpha it computed
ListenerTask(invocation) ==
    [invocation |-> invocation, pc |-> "ready", future |-> 0, alpha |-> 0]

\* the Application the actor starts with: the system events, and a wildcard
\* listener for FRAME_NEXT that suspends and never finishes
FadeState ==
    LET application == application_init(InitialState, USEREVENT + 1)
    IN  [application EXCEPT !.listeners =
             Some(listener_add(application.listeners.v, None, FRAME_NEXT, "L1"))]

InitFade ==
    /\ mailbox = <<>>
    /\ state = FadeState
    /\ consumer = [pc |-> "waiting", request |-> 0]
    /\ requests = <<>>
    /\ tasks = <<>>
    /\ futures = <<>>
    /\ applied = <<>>
    /\ exit_event = FALSE
    /\ actor = "waiting"
    /\ event = [type |-> MOUSEBUTTONDOWN, pos |-> <<0, 0>>, target |-> None]
    /\ invoked = <<>>
    /\ custom_type = USEREVENT + 1 + Len(SystemEvent)
    /\ pygame_queue = <<>>
    /\ poll = NoPoll
    /\ proc = [n \in ProcNames |-> NoProc]

\* the listener task of handle_click runs, for an element not created yet
HandleClick ==
    /\ \E elem \in FadeElements :
           /\ \A i \in 1..Len(requests) :
                  requests[i].operation # Operation("element_update", <<elem>>)
           /\ PutAll([i \in 1..3 |-> WithFuture(handle_click(elem)[i])])
    /\ UNCHANGED <<state, consumer, applied, exit_event, actor, event, invoked,
                   sysvars>>

\* the poll loop routes a FRAME_NEXT occurrence, which has no target
FrameDispatch ==
    /\ Cardinality({i \in 1..Len(requests) :
                        requests[i].operation.op = "dispatch_to_target"})
       < MaxDispatches
    /\ LET puts == process_route([type |-> FRAME_NEXT, pos |-> <<>>, target |-> None])
       IN  PutAll([i \in 1..Len(puts) |-> WithFuture(puts[i])])
    /\ UNCHANGED <<state, consumer, applied, exit_event, actor, event, invoked,
                   sysvars>>

\* a faulty consume, for sensitivity checks: before its next queue.get() it
\* waits for the tasks it created and for the listener tasks they created
ConsumeWaitAll ==
    /\ \A i \in 1..Len(tasks) : tasks[i].pc \in {"none", "done", "failed"}
    /\ \A k \in 1..Len(invoked) : invoked[k].pc = "done"

\* consume: what the next queue.get() waits for besides the mailbox.  The
\* task of an ExecuteRequest is created and not awaited
ConsumeWait == TRUE

\* consume, one request dequeued
FadeConsume ==
    /\ ConsumeWait
    /\ (ConsumeSet \/ ConsumeExecute)

\* the callables of the requests, called with the argument the request
\* read: char_update returns the element with the new alpha, and
\* display_update_queue puts the element's Rect on the queue of rectangles
\* to draw (an object outside the State)
FadeOpCall(operation, arg) ==
    LET nothing == [raised |-> FALSE, posted |-> <<>>, invoked |-> <<>>,
                    quit |-> FALSE, value |-> None]
    IN  CASE operation.op = "char_update" ->
                 [nothing EXCEPT !.value = Some(operation.args[1])]
          [] operation.op = "display_update_queue" -> nothing
          [] OTHER -> SystemOpCall(operation, arg)

\* ExecuteRequest.__call__ up to the end of the task of the callable; the
\* listener tasks a dispatch creates become ready.  The tasks run their
\* callables in the order consume created them
FadeOperationRun(i) ==
    /\ tasks[i].pc = "created"
    /\ \A j \in 1..(i - 1) : tasks[j].pc # "created"
    /\ LET arg == IF requests[i].field = "display_update" THEN None
                  ELSE RequestArgument(ExecuteRequestState(i), requests[i].field)
           out == FadeOpCall(requests[i].operation, arg)
       IN  /\ tasks' = [tasks EXCEPT
                  ![i].pc = IF out.raised THEN "failed"
                            ELSE IF requests[i].reply_to THEN "returned" ELSE "done",
                  ![i].arg = arg,
                  ![i].result = out.value]
           /\ invoked' = invoked \o [k \in 1..Len(out.invoked) |->
                                         ListenerTask(out.invoked[k])]
    /\ UNCHANGED <<mailbox, state, consumer, requests, futures, applied,
                   exit_event, actor, event, sysvars>>

\* the alpha a handler that starts now may compute for its element: time
\* does not go back, so after one handler of the element computed 0 every
\* later one computes 0
AlphasNow(element) ==
    IF \E k \in 1..Len(invoked) :
           /\ invoked[k].invocation.element = element
           /\ invoked[k].pc # "ready"
           /\ invoked[k].alpha = 0
    THEN {0} ELSE Alphas

\* a listener task runs to its first await, in the order of creation.
\* FadeOutHandler: execute_sync(mailbox, None)(char_update, target, alpha)
\* and `await future_elem`; the wildcard listener suspends for good
ListenerStart(k) ==
    /\ invoked[k].pc = "ready"
    /\ \A j \in 1..(k - 1) : invoked[j].pc # "ready"
    /\ IF invoked[k].invocation.op = "FadeOutHandler"
       THEN \E alpha \in AlphasNow(invoked[k].invocation.element) :
                /\ PutAll(<<WithFuture(ExecuteRequest(
                                Operation("char_update",
                                          <<invoked[k].invocation.element, alpha>>),
                                NoField, TRUE))>>)
                /\ invoked' = [invoked EXCEPT ![k].pc = "awaiting",
                                              ![k].future = Len(requests) + 1,
                                              ![k].alpha = alpha]
       ELSE /\ invoked' = [invoked EXCEPT ![k].pc = "suspended"]
            /\ UNCHANGED <<mailbox, requests, tasks, futures>>
    /\ UNCHANGED <<state, consumer, applied, exit_event, actor, event, sysvars>>

\* FadeOutHandler.__call__ from `await future_elem` to its end
ListenerResume(k) ==
    /\ invoked[k].pc = "awaiting"
    /\ AwaitDone(futures[invoked[k].future])
    /\ LET puts == FadeOutHandlerResume(futures[invoked[k].future].result.v,
                                        invoked[k].alpha)
       IN  PutAll([i \in 1..Len(puts) |-> WithFuture(puts[i])])
    /\ invoked' = [invoked EXCEPT ![k].pc = "done"]
    /\ UNCHANGED <<state, consumer, applied, exit_event, actor, event, sysvars>>

NextFade ==
    \/ HandleClick
    \/ FrameDispatch
    \/ FadeConsume
    \/ ConsumeSetDone
    \/ \E i \in 1..Len(tasks) : FadeOperationRun(i)
    \/ \E i \in 1..Len(tasks) : ExecuteRequestReplyNext(i)
    \/ \E k \in 1..Len(invoked) : ListenerStart(k)
    \/ \E k \in 1..Len(invoked) : ListenerResume(k)

SpecFade == InitFade /\ [][NextFade]_vars

\* the event loop runs every task that is ready
SpecFadeFair == SpecFade /\ WF_vars(NextFade)

\* request i is the first request of a remove_element of element e
IsElementRemove(i, e) ==
    requests[i] = SetRequest(Operation("element_remove", <<e>>), "elements")

\* the target keys of the registry of a State
ListenerTargets(s) ==
    UNION {DictKeys(DictGet(s.listeners.v, t, <<>>)) : t \in DictKeys(s.listeners.v)}

\* C24: the two requests of remove_element are next to each other in the
\* mailbox, no task of an ExecuteRequest is created with a State in which
\* an element whose removal was requested before is a listener target
\* and is missing from the elements, and no dispatch fails.
C24_RemoveBackToBack ==
    /\ \A i \in 1..Len(requests), e \in FadeElements :
           IsElementRemove(i, e) =>
               /\ i + 1 <= Len(requests)
               /\ requests[i + 1]
                      = SetRequest(Operation("listeners_remove", <<e>>), "listeners")
               /\ \A k \in 1..Len(mailbox) :
                      mailbox[k] = i + 1 =>
                          (k = 1 /\ (consumer.request = i \/ i \in Range(applied)))
                          \/ (k > 1 /\ mailbox[k - 1] = i)
    /\ \A i \in 1..Len(requests), e \in FadeElements :
           (/\ requests[i].kind = "ExecuteRequest"
            /\ tasks[i].pc # "none"
            /\ \E j \in 1..(i - 1) : IsElementRemove(j, e))
               => (e.id \in ListenerTargets(tasks[i].state)
                       => e.id \in DictKeys(tasks[i].state.elements.v))
    /\ \A i \in 1..Len(requests) :
           requests[i].operation.op = "dispatch_to_target" => tasks[i].pc # "failed"

\* an element was removed through remove_element while its handler was
\* registered, and a dispatch dequeued afterwards has run with a State that
\* holds neither the element nor a listener of it
C24_Witness ==
    \E i \in 1..Len(requests), e \in FadeElements :
        /\ requests[i].operation.op = "dispatch_to_target"
        /\ tasks[i].pc = "done"
        /\ \E j \in 1..(i - 1) : IsElementRemove(j, e) /\ j \in Range(applied)
        /\ e.id \notin ListenerTargets(tasks[i].state)
        /\ e.id \notin DictKeys(tasks[i].state.elements.v)
        /\ \E k \in 1..Len(invoked) :
               invoked[k].invocation.element = e /\ invoked[k].pc = "done"

\* request i has left the mailbox and, when it is a SetRequest, was applied
Dequeued(i) == ~InMailbox(i) /\ consumer.request # i

\* nothing put so far is left to do for the actor: every request was
\* dequeued, every reply handle is resolved, every dispatch request has run
Settled ==
    \A i \in 1..Len(requests) :
        /\ Dequeued(i)
        /\ requests[i].reply_to => futures[i].status = "done"
        /\ requests[i].operation.op = "dispatch_to_target" => tasks[i].pc = "done"

\* C21: whatever the listener tasks do - one suspended for good, one
\* awaiting the reply of a request it put into the same mailbox - whenever
\* a request is in the mailbox, a reply handle is unresolved or a dispatch
\* request has not run, a state follows in which every request put so far
\* was dequeued, every reply handle is resolved and every dispatch request
\* has run.
C21_MailboxProgress == ~Settled ~> Settled

\* a listener task is suspended for good, a FadeOutHandler that awaited the
\* reply of its char_update request has gone on to its end, and a dispatch
\* request put after that char_update request has run
C21_Witness ==
    /\ \E k \in 1..Len(invoked) : invoked[k].pc = "suspended"
    /\ \E k \in 1..Len(invoked), i \in 1..Len(requests) :
           /\ invoked[k].invocation.op = "FadeOutHandler"
           /\ invoked[k].pc = "done"
           /\ futures[invoked[k].future].status = "done"
           /\ i > invoked[k].future
           /\ requests[i].operation.op = "dispatch_to_target"
           /\ tasks[i].pc = "done"

============================================================================
